---- MODULE Spec2Model ----
(***************************************************************************)
(* Model of the flipbook frame-extraction composable (useVideoFrames) and  *)
(* of the frame-timing helpers (helper/frameGeneration.ts).                *)
(*                                                                         *)
(* Time is counted in whole milliseconds: a duration or decoder position   *)
(* of x seconds is the integer 1000*x, and arithmetic on times is exact.   *)
(* One state of the model is the state of the composable's refs, of the    *)
(* <video> element it drives, and of the browser's pending work (play()    *)
(* promises, requestVideoFrameCallback registrations, createImageBitmap    *)
(* calls in flight, the auto-start timeout and the animation interval).    *)
(***************************************************************************)
EXTENDS Integers, Sequences, FiniteSets, TLC

\* ---------------------------------------------------------------- bounds
\* Number of generateFrames calls explored in one behaviour.
MaxRuns == 2
\* Number of auto-start timeouts of updateFrames pending at the same time.
MaxAutoStart == 2
\* Duration of the loaded video, in milliseconds.
DurationMs == 100
\* Decoder progress between two presented frames, in milliseconds.
StepMs == 50
\* Largest duration (ms) given to the timing helpers when checked alone.
MaxPureDurationMs == 400
\* Largest speed, either way, given to calculateAnimationInterval checked alone.
MaxPureSpeed == 25
\* calculateOptimalPlaybackRate checked alone: durations of up to this many
\* steps of RateStepMs, either way.
MaxRateSteps == 40
\* Most frames of a flipbook whose PDF layout is checked.
MaxPdfFrames == 2
MaxCropSide == 12
MaxFlipbookSide == 8

\* -------------------------------------------------------- program constants
\* FPS slider range of the view.
MinFps == 1
MaxFps == 120
\* parseInt(fps.value) || 30
DefaultFps == 30
\* 1 second = 1000 ms: the factor of Math.round(x * 1000) / 1000.
MsPerSecond == 1000
\* maxWidth = 480 / 1.5 and maxHeight = 288 / 1.5 of printPreview.
PreviewMaxWidth == 320
PreviewMaxHeight == 192

\* FPS values the user picks while a video is loaded.
FpsChoices == {20, 30}
\* Decoder progress between two presented frames (ms).
AdvanceSteps == {StepMs}
\* Playback speed slider values explored.
SpeedChoices == {-1, 0, 1}

\* Size presets clicked in the size selector, inches.
SizeChoices == {<<6, 4>>}

\* An unfinished run is named by its age: 0 for the run of the latest
\* generateFrames call, 1 for the one before it, and so on.
Ages == 0..(MaxRuns - 1)

\* ------------------------------------------------- helper/frameGeneration.ts

\* Math.floor(videoDurationSeconds * targetFps), for positive arguments,
\* with the duration in ms.
TotalFramesToCapture(durationMs, targetFps) ==
    (durationMs * targetFps) \div MsPerSecond

\* Math.round(i * frameInterval * 1000) with frameInterval = 1 / targetFps:
\* i/targetFps seconds in ms, rounded half up as Math.round does.
RoundedTimeFloor(i, targetFps) == (MsPerSecond * i) \div targetFps

RoundedTime(i, targetFps) ==
    (2 * MsPerSecond * i + targetFps) \div (2 * targetFps)

\* Loop bound of calculateTargetFrameTimes run one step too far.
TargetLoopOffByOne(durationMs, targetFps) ==
    [i \in 1..(TotalFramesToCapture(durationMs, targetFps) + 1) |->
        RoundedTime(i - 1, targetFps)]

TargetLoop(durationMs, targetFps) ==
    [i \in 1..TotalFramesToCapture(durationMs, targetFps) |->
        RoundedTime(i - 1, targetFps)]

CalculateTargetFrameTimes(durationMs, targetFps) ==
    IF durationMs <= 0 \/ targetFps <= 0
    THEN << >>
    ELSE TargetLoop(durationMs, targetFps)

\* shouldCaptureFrame with a strict comparison.
ShouldCaptureFrameStrict(currentVideoTime, targetTimes, currentTargetIndex) ==
    IF currentTargetIndex >= Len(targetTimes)
    THEN FALSE
    ELSE currentVideoTime > targetTimes[currentTargetIndex + 1]

\* targetTimes is 0-indexed in the code and 1-indexed here.
ShouldCaptureFrame(currentVideoTime, targetTimes, currentTargetIndex) ==
    IF currentTargetIndex >= Len(targetTimes)
    THEN FALSE
    ELSE currentVideoTime >= targetTimes[currentTargetIndex + 1]

\* Playback rates are counted in units of 1/RateScale, so that
\* (duration / 30) * 0.5 with the duration in ms and (fps / 60) * 0.5 are whole.
RateScale == 120000

\* calculateOptimalPlaybackRate without its final clamp.
CalculateOptimalPlaybackRateUnclamped(durationMs, targetFps) ==
    LET durationFactor == IF 2 * durationMs <= RateScale \div 2
                          THEN 2 * durationMs ELSE RateScale \div 2
        fpsFactor == IF 1000 * targetFps <= RateScale \div 2
                     THEN 1000 * targetFps ELSE RateScale \div 2
    IN  2 * RateScale + durationFactor + fpsFactor

\* durationFactor and fpsFactor stand for Math.min(d / 30, 1.0) * 0.5 and
\* Math.min(fps / 60, 1.0) * 0.5.
CalculateOptimalPlaybackRate(durationMs, targetFps) ==
    LET durationFactor == IF 2 * durationMs <= RateScale \div 2
                          THEN 2 * durationMs ELSE RateScale \div 2
        fpsFactor == IF 1000 * targetFps <= RateScale \div 2
                     THEN 1000 * targetFps ELSE RateScale \div 2
        calculatedRate == 2 * RateScale + durationFactor + fpsFactor
        capped == IF calculatedRate <= 4 * RateScale
                  THEN calculatedRate ELSE 4 * RateScale
    IN  IF capped >= RateScale \div 2 THEN capped ELSE RateScale \div 2

\* -------------------------------------------- utils/print.ts, printPreview
\* The aspect ratio is the fraction ratioNum / ratioDen (ratioDen > 0); a page
\* size is the pair of fractions wn / dd by hn / dd.

\* The sizing with the width-constrained branch always taken.
PageSizeByWidth(width, height, ratioNum, ratioDen) ==
    [wn |-> width * ratioNum, hn |-> width * ratioDen, dd |-> ratioNum]

\* if (videoAspectRatio > width / height) { pdfWidth = width; pdfHeight =
\* width / videoAspectRatio } else { pdfHeight = height; pdfWidth = height *
\* videoAspectRatio }
PageSize(width, height, ratioNum, ratioDen) ==
    IF ratioNum * height > width * ratioDen
    THEN [wn |-> width * ratioNum, hn |-> width * ratioDen, dd |-> ratioNum]
    ELSE [wn |-> height * ratioNum, hn |-> height * ratioDen, dd |-> ratioDen]

\* A page of the content array: an image at a size. The image is 0 for the
\* cover and k for frames[k - 1], the k-th frame.
Page(size, image) ==
    [wn |-> size.wn, hn |-> size.hn, dd |-> size.dd, image |-> image]

\* A content array with the cover pushed after the frames.
PdfContentCoverLast(nFrames, cover, width, height, ratioNum, ratioDen) ==
    [i \in 1..(nFrames + IF cover THEN 1 ELSE 0) |->
        Page(PageSize(width, height, ratioNum, ratioDen),
             IF i <= nFrames THEN i ELSE 0)]

\* The content array: the cover when there is one, then every frame, all of
\* the size computed once.
PdfContent(nFrames, cover, width, height, ratioNum, ratioDen) ==
    [i \in 1..(nFrames + IF cover THEN 1 ELSE 0) |->
        Page(PageSize(width, height, ratioNum, ratioDen),
             IF cover THEN i - 1 ELSE i)]

GenerateFlipbookPDF(nFrames, cover, width, height, ratioNum, ratioDen) ==
    PdfContent(nFrames, cover, width, height, ratioNum, ratioDen)

PrintPreview(nFrames, cover, ratioNum, ratioDen) ==
    PdfContent(nFrames, cover, PreviewMaxWidth, PreviewMaxHeight, ratioNum,
               ratioDen)

\* ------------------------------------------------------- helper/print.ts
\* isLandscape = ratio > width / height
\* pdfWidth = isLandscape ? width : height * ratio
\* pdfHeight = isLandscape ? height : width / ratio        (ratio > 0)
HelperPageSize(width, height, ratioNum, ratioDen) ==
    IF ratioNum * height > width * ratioDen
    THEN [wn |-> width, hn |-> height, dd |-> 1]
    ELSE [wn |-> height * ratioNum * ratioNum,
          hn |-> width * ratioDen * ratioDen,
          dd |-> ratioNum * ratioDen]

\* generateFlipbookPDF of helper/print.ts: a table per page, the binding strip
\* and the image; the image cell is what a page records.
HelperGenerateFlipbookPDF(nFrames, cover, width, height, ratioNum, ratioDen) ==
    [i \in 1..(nFrames + IF cover THEN 1 ELSE 0) |->
        Page(HelperPageSize(width, height, ratioNum, ratioDen),
             IF cover THEN i - 1 ELSE i)]


\* ------------------------------------------------------------------ state
VARIABLES
    \* refs of the composable
    status,                 \* VIDEO_STATUS: "empty" | "loading" | "loaded" | "error"
    videoSrc,               \* "null" or the name of the source
    fps,                    \* parseInt(fps.value) || 30
    playbackSpeed,          \* parseFloat(playbackSpeed.value) || 0
    currentFrameIndex,
    videoDuration,          \* ms
    totalFrames,            \* images captured since the last generateFrames or
                            \* resetVideo, each with the chain that captured it
    frames,                 \* the published sequence: the decoder position each
                            \* image shows
    targetFrameTimes,       \* ms
    currentTargetIndex,
    isPlaying,
    playInterval,           \* "null" or "timer": the handle of the animation interval
    frameGenerationResolver,\* "null" or "resolve": the resolve of the promise of
                            \* the latest generateFrames call
    pendingPromises,        \* the generateFrames calls whose promise is not
                            \* settled yet, by age like the chains (a history
                            \* of the program, not a ref)
    \* the <video> element
    vReady,                 \* readyState >= 1 (HAVE_METADATA)
    vPlaying,               \* play() was called and the media was not reloaded since
    vTime,                  \* currentTime, ms
    vEnded,                 \* ended
    vFresh,                 \* a seek was made and the frame there is not yet presented
    vError,                 \* the element's error attribute is set (a MediaError)
    \* pending work of the browser
    loadPc,                 \* loadSampleVideo: "idle" | "wait200" | "waitMeta"
    metaWait,               \* generateFrames calls waiting for loadedmetadata
    playPromises,           \* generateFrames calls whose play() promise is pending
    cbWaiting,              \* getFrame registered, no frame presented since
    cbReady,                \* getFrame registered, a frame was presented: it will run
    inFlight,               \* getFrame suspended in drawFrame at createImageBitmap
    autoStart,              \* pending setTimeout(..., 100) of updateFrames
    activeTimers,           \* live setInterval timers
    timerPeriod,            \* period (ms) of the interval playInterval names
    flipbookSize,           \* <<flipbookWidth, flipbookHeight>>, inches
    \* history kept for the properties
    runsStarted,            \* number of generateFrames calls made so far
    runFps,                 \* the fps read by the last processVideo
    runCause,               \* what made the latest generateFrames call:
                            \* "none" | "load" | "fps" | "size"
    overlap,                \* the extraction in progress was started or disturbed
                            \* while another getFrame chain was alive
    lastPub,                \* the run that published frames: the fps it read and
                            \* whether it ran undisturbed
    \* the timing helpers checked alone
    pure

extractVars == <<totalFrames, targetFrameTimes, currentTargetIndex, videoDuration,
                 frameGenerationResolver, pendingPromises>>
videoVars == <<vReady, vPlaying, vTime, vEnded, vFresh, vError>>
browserVars == <<metaWait, playPromises, cbWaiting, cbReady, inFlight>>
playVars == <<currentFrameIndex, isPlaying, playInterval, activeTimers, timerPeriod>>
histVars == <<runsStarted, runFps, runCause, overlap, lastPub>>

vars == <<status, videoSrc, fps, playbackSpeed, frames, loadPc, autoStart,
          flipbookSize, extractVars, videoVars, browserVars, playVars, histVars,
          pure>>

NoPub == [fps |-> 0, clean |-> FALSE]

\* A frame is the image drawn from the decoder at position t; age records which
\* getFrame chain captured it: 0 when the chain was started by the generateFrames
\* call that last emptied totalFrames, more for a chain of an earlier call.
Frame(t, age) == [t |-> t, age |-> age]

\* [...totalFrames.value]: the images, without the record of who captured them.
Images(fs) == [i \in 1..Len(fs) |-> fs[i].t]

\* The getFrame chains that have a registration pending or a handler suspended.
InFlightChains == {e.chain : e \in inFlight}
AliveChains == cbWaiting \cup cbReady \cup InFlightChains
AllChains == AliveChains \cup playPromises \cup metaWait
ChainAlive == AllChains # {}

\* A new generateFrames call makes every unfinished run one call older.
Older(S) == {a + 1 : a \in S}
OlderInFlight == {[e EXCEPT !.chain = @ + 1] : e \in inFlight}

MainInit ==
    /\ status = "empty"
    /\ videoSrc = "null"
    /\ fps = DefaultFps
    /\ playbackSpeed = 0
    /\ currentFrameIndex = 0
    /\ videoDuration = 0
    /\ totalFrames = << >>
    /\ frames = << >>
    /\ targetFrameTimes = << >>
    /\ currentTargetIndex = 0
    /\ isPlaying = FALSE
    /\ playInterval = "null"
    /\ frameGenerationResolver = "null"
    /\ pendingPromises = {}
    /\ vReady = FALSE
    /\ vPlaying = FALSE
    /\ vTime = 0
    /\ vEnded = FALSE
    /\ vFresh = FALSE
    /\ vError = FALSE
    /\ loadPc = "idle"
    /\ metaWait = {}
    /\ playPromises = {}
    /\ cbWaiting = {}
    /\ cbReady = {}
    /\ inFlight = {}
    /\ autoStart = 0
    /\ activeTimers = 0
    /\ timerPeriod = 0
    /\ flipbookSize = <<6, 4>>
    /\ runsStarted = 0
    /\ runFps = 0
    /\ runCause = "none"
    /\ overlap = FALSE
    /\ lastPub = NoPub

Init ==
    /\ MainInit
    /\ pure = [op |-> "none"]


\* ------------------------------------------------------ playback controller
Max(a, b) == IF a >= b THEN a ELSE b
Min(a, b) == IF a <= b THEN a ELSE b
Abs(x) == IF x < 0 THEN -x ELSE x

\* calculateAnimationInterval without Math.max(16, ...) and Math.min(2000, ...).
CalculateAnimationIntervalUnclamped(speed) ==
    IF speed = 0 THEN 100
    ELSE IF speed > 0 THEN 100 \div (1 + speed)
    ELSE 100 * (1 + Abs(speed))

\* calculateAnimationInterval, for whole speeds (the quotient is truncated to
\* whole milliseconds, as setInterval does with its delay).
CalculateAnimationInterval(speed) ==
    IF speed = 0 THEN 100
    ELSE IF speed > 0 THEN Max(16, 100 \div (1 + speed))
    ELSE Min(2000, 100 * (1 + Abs(speed)))

\* A stop that forgets clearInterval: the handle is dropped, the timer lives on.
StopPlaybackLeak ==
    /\ activeTimers' = activeTimers
    /\ playInterval' = "null"
    /\ timerPeriod' = 0
    /\ isPlaying' = FALSE

\* if (playInterval.value) { clearInterval(...); playInterval.value = null }
\* isPlaying.value = false
StopPlayback ==
    /\ activeTimers' = IF playInterval # "null" THEN activeTimers - 1 ELSE activeTimers
    /\ playInterval' = "null"
    /\ timerPeriod' = 0
    /\ isPlaying' = FALSE

\* A togglePlay that starts the timer whether or not there are frames.
TogglePlayBodyAlways ==
    IF isPlaying
    THEN /\ StopPlayback
         /\ UNCHANGED currentFrameIndex
    ELSE /\ isPlaying' = TRUE
         /\ playInterval' = "timer"
         /\ activeTimers' = activeTimers + 1
         /\ timerPeriod' = 100
         /\ UNCHANGED currentFrameIndex

\* The body of togglePlay; frames is not changed by any of its callers.
TogglePlayBody ==
    IF isPlaying
    THEN /\ StopPlayback
         /\ UNCHANGED currentFrameIndex
    ELSE IF Len(frames) > 0
         THEN /\ isPlaying' = TRUE
              /\ playInterval' = "timer"
              /\ activeTimers' = activeTimers + 1
              /\ timerPeriod' = CalculateAnimationInterval(playbackSpeed)
              /\ UNCHANGED currentFrameIndex
         ELSE UNCHANGED playVars

TogglePlay ==
    /\ TogglePlayBody
    /\ UNCHANGED <<status, videoSrc, fps, playbackSpeed, frames, loadPc, autoStart,
                   extractVars, videoVars, browserVars, histVars, pure, flipbookSize>>

\* The callback of setInterval, identical in togglePlay and in the watcher.
TickIndexNoWrap(i, n) == i + 1

TickIndex(i, n) == IF i < n - 1 THEN i + 1 ELSE 0

Tick ==
    /\ activeTimers > 0
    /\ currentFrameIndex' = TickIndex(currentFrameIndex, Len(frames))
    /\ UNCHANGED <<status, videoSrc, fps, playbackSpeed, frames, loadPc, autoStart,
                   isPlaying, playInterval, activeTimers, timerPeriod,
                   extractVars, videoVars, browserVars, histVars, pure, flipbookSize>>

PreviousFrame ==
    /\ StopPlayback
    /\ currentFrameIndex' =
          IF currentFrameIndex > 0 THEN currentFrameIndex - 1 ELSE currentFrameIndex
    /\ UNCHANGED <<status, videoSrc, fps, playbackSpeed, frames, loadPc, autoStart,
                   extractVars, videoVars, browserVars, histVars, pure, flipbookSize>>

NextIndexUnclamped(i, n) == i + 1

NextIndex(i, n) == IF i < n - 1 THEN i + 1 ELSE i

NextFrame ==
    /\ StopPlayback
    /\ currentFrameIndex' = NextIndex(currentFrameIndex, Len(frames))
    /\ UNCHANGED <<status, videoSrc, fps, playbackSpeed, frames, loadPc, autoStart,
                   extractVars, videoVars, browserVars, histVars, pure, flipbookSize>>

\* setFramePosition without its range check.
PositionIndexUnchecked(index, i, n) == index

PositionIndex(index, i, n) == IF index >= 0 /\ index < n THEN index ELSE i

SetFramePosition(index) ==
    /\ StopPlayback
    /\ currentFrameIndex' = PositionIndex(index, currentFrameIndex, Len(frames))
    /\ UNCHANGED <<status, videoSrc, fps, playbackSpeed, frames, loadPc, autoStart,
                   extractVars, videoVars, browserVars, histVars, pure, flipbookSize>>

\* A speed change that leaves the running timer at its old period.
SetPlaybackSpeedNoRearm(s) ==
    /\ s # playbackSpeed
    /\ playbackSpeed' = s
    /\ UNCHANGED playVars
    /\ UNCHANGED <<status, videoSrc, fps, frames, loadPc, autoStart,
                   extractVars, videoVars, browserVars, histVars, pure, flipbookSize>>

\* v-model writes playbackSpeed; the watcher re-arms the interval when playing.
SetPlaybackSpeed(s) ==
    /\ s # playbackSpeed
    /\ playbackSpeed' = s
    /\ IF isPlaying /\ playInterval # "null"
       THEN /\ timerPeriod' = CalculateAnimationInterval(s)
            /\ UNCHANGED <<currentFrameIndex, isPlaying, playInterval, activeTimers>>
       ELSE UNCHANGED playVars
    /\ UNCHANGED <<status, videoSrc, fps, frames, loadPc, autoStart,
                   extractVars, videoVars, browserVars, histVars, pure, flipbookSize>>


\* The argument currentTime passes to formatTime for index i of n frames and a
\* duration d: 0 when there are no frames or no duration, otherwise
\* (i / (n - 1)) * d as the fraction num / den; with n = 1 the division is by
\* zero, which in JavaScript gives NaN for 0 / 0 and Infinity for i > 0.
CurrentTimeOf(i, n, d) ==
    IF n = 0 \/ d = 0
    THEN [kind |-> "number", num |-> 0, den |-> 1]
    ELSE IF n = 1
         THEN [kind |-> IF i = 0 THEN "NaN" ELSE "Infinity", num |-> 0, den |-> 0]
         ELSE [kind |-> "number", num |-> i * d, den |-> n - 1]

\* The computed currentTime of the composable.
CurrentTime == CurrentTimeOf(currentFrameIndex, Len(frames), videoDuration)

\* --------------------------------------------------- frame capture pipeline

\* resolve() of the promise whose resolver is held, then resolver = null.
ResolveHeld ==
    /\ frameGenerationResolver' = "null"
    /\ pendingPromises' = IF frameGenerationResolver = "resolve"
                          THEN pendingPromises \ {0}
                          ELSE pendingPromises

\* An updateFrames that leaves the playback position where it was.
UpdateFramesKeepIndex(c, tf) ==
    /\ StopPlayback
    /\ frames' = Images(tf)
    /\ UNCHANGED currentFrameIndex
    /\ IF Len(tf) > 0
       THEN /\ autoStart < MaxAutoStart
            /\ autoStart' = autoStart + 1
            /\ UNCHANGED <<frameGenerationResolver, pendingPromises>>
       ELSE /\ ResolveHeld
            /\ UNCHANGED autoStart
    /\ lastPub' = [fps |-> runFps, clean |-> ~overlap]

\* updateFrames, called by the getFrame chain c when totalFrames holds tf.
UpdateFrames(c, tf) ==
    /\ StopPlayback
    /\ frames' = Images(tf)
    /\ currentFrameIndex' = 0
    /\ IF Len(tf) > 0
       THEN /\ autoStart < MaxAutoStart
            /\ autoStart' = autoStart + 1
            /\ UNCHANGED <<frameGenerationResolver, pendingPromises>>
       ELSE /\ ResolveHeld
            /\ UNCHANGED autoStart
    /\ lastPub' = [fps |-> runFps, clean |-> ~overlap]

\* A getFrame that shows what it has captured so far each time it asks for
\* another notification.
GetFrameTailLive(c, tf, cti) ==
    IF ~vEnded /\ cti < Len(targetFrameTimes)
    THEN /\ cbWaiting' = cbWaiting \cup {c}
         /\ frames' = Images(tf)
         /\ UNCHANGED <<autoStart, playVars, frameGenerationResolver, pendingPromises, lastPub>>
    ELSE /\ UpdateFrames(c, tf)
         /\ UNCHANGED cbWaiting

\* The end of getFrame for chain c, once totalFrames is tf and the cursor is cti:
\* request the next notification, or publish.
GetFrameTail(c, tf, cti) ==
    IF ~vEnded /\ cti < Len(targetFrameTimes)
    THEN /\ cbWaiting' = cbWaiting \cup {c}
         /\ UNCHANGED <<frames, autoStart, playVars, frameGenerationResolver, pendingPromises,
                        lastPub>>
    ELSE /\ UpdateFrames(c, tf)
         /\ UNCHANGED cbWaiting

\* A decoded-frame notification runs getFrame for chain c up to its first
\* suspension: the capture decision, and createImageBitmap of the frame on show.
Notify(c) ==
    /\ c \in cbReady
    /\ cbReady' = cbReady \ {c}
    /\ IF ShouldCaptureFrame(vTime, targetFrameTimes, currentTargetIndex)
       THEN /\ inFlight' = inFlight \cup
                   {[chain |-> c, t |-> vTime, idx |-> currentTargetIndex]}
            /\ UNCHANGED <<cbWaiting, frames, autoStart, playVars,
                           frameGenerationResolver, pendingPromises, lastPub>>
       ELSE /\ GetFrameTail(c, totalFrames, currentTargetIndex)
            /\ UNCHANGED inFlight
    /\ UNCHANGED <<status, videoSrc, fps, playbackSpeed, loadPc,
                   totalFrames, targetFrameTimes, currentTargetIndex, videoDuration,
                   videoVars, metaWait, playPromises,
                   runsStarted, runFps, runCause, overlap, pure, flipbookSize>>

\* currentTargetIndex.value++ with the cursor left where it was.
NextTargetIndexStuck(cti) == cti

\* currentTargetIndex.value++
NextTargetIndex(cti) == cti + 1

\* createImageBitmap settles: drawFrame draws and pushes the image, getFrame
\* advances the cursor and reaches its tail, all in one turn of the event loop.
DrawFrameDone(e) ==
    /\ e \in inFlight
    /\ inFlight' = inFlight \ {e}
    /\ totalFrames' = Append(totalFrames, Frame(e.t, e.chain))
    /\ currentTargetIndex' = NextTargetIndex(currentTargetIndex)
    /\ GetFrameTail(e.chain, totalFrames', currentTargetIndex')
    /\ UNCHANGED <<status, videoSrc, fps, playbackSpeed, loadPc,
                   targetFrameTimes, videoDuration,
                   videoVars, metaWait, playPromises, cbReady,
                   runsStarted, runFps, runCause, overlap, pure, flipbookSize>>

\* The decoder presents the frame at the position just sought.
PresentFirstFrame ==
    /\ vReady /\ vPlaying /\ vFresh
    /\ vFresh' = FALSE
    /\ cbReady' = cbReady \cup cbWaiting
    /\ cbWaiting' = {}
    /\ UNCHANGED <<status, videoSrc, fps, playbackSpeed, frames, loadPc, autoStart,
                   extractVars, vReady, vPlaying, vTime, vEnded, vError,
                   metaWait, playPromises, inFlight, playVars, histVars, pure, flipbookSize>>

\* Playback advances by dt and the decoder presents the frame there; the video
\* ends when it reaches its duration.
Advance(dt) ==
    /\ vReady /\ vPlaying /\ ~vEnded
    /\ vTime' = Min(vTime + dt, DurationMs)
    /\ vEnded' = (vTime' = DurationMs)
    /\ vFresh' = FALSE
    /\ cbReady' = cbReady \cup cbWaiting
    /\ cbWaiting' = {}
    /\ UNCHANGED <<status, videoSrc, fps, playbackSpeed, frames, loadPc, autoStart,
                   extractVars, vReady, vPlaying, vError,
                   metaWait, playPromises, inFlight, playVars, histVars, pure, flipbookSize>>

\* Playback runs from the last frame of the source to its end: ended becomes
\* true and currentTime the duration, and no frame is presented, so no
\* decoded-frame notification is delivered for it.
VideoEnds ==
    /\ vReady /\ vPlaying /\ ~vEnded /\ ~vFresh
    /\ vTime + StepMs >= DurationMs
    /\ vTime' = DurationMs
    /\ vEnded' = TRUE
    /\ UNCHANGED <<status, videoSrc, fps, playbackSpeed, frames, loadPc, autoStart,
                   extractVars, vReady, vPlaying, vFresh, vError, browserVars,
                   playVars, histVars, pure, flipbookSize>>

\* processVideo of generateFrames, reading fps = f. play() starts playback
\* unless the element holds a decoding error, and then its promise stays
\* pending.
ProcessVideo(f) ==
    /\ videoDuration' = DurationMs
    /\ targetFrameTimes' = CalculateTargetFrameTimes(DurationMs, f)
    /\ vTime' = 0
    /\ vEnded' = FALSE
    /\ vFresh' = TRUE
    /\ vPlaying' = ~vError
    /\ UNCHANGED <<vReady, vError>>

\* generateFrames, with fps = f when it is called.
GenerateFrames(f) ==
    /\ runsStarted < MaxRuns
    /\ runsStarted' = runsStarted + 1
    /\ totalFrames' = << >>
    /\ currentTargetIndex' = 0
    /\ frameGenerationResolver' = "resolve"
    /\ pendingPromises' = Older(pendingPromises) \cup {0}
    /\ overlap' = ChainAlive
    /\ cbWaiting' = Older(cbWaiting)
    /\ cbReady' = Older(cbReady)
    /\ inFlight' = OlderInFlight
    /\ IF vReady
       THEN /\ ProcessVideo(f)
            /\ playPromises' = Older(playPromises) \cup {0}
            /\ metaWait' = Older(metaWait)
            /\ runFps' = f
       ELSE /\ metaWait' = Older(metaWait) \cup {0}
            /\ playPromises' = Older(playPromises)
            /\ UNCHANGED <<runFps, targetFrameTimes, videoDuration, videoVars>>

\* The fps slider: v-model writes fps, @change calls handleFpsChange.
HandleFpsChange(f) ==
    /\ f # fps
    /\ fps' = f
    /\ IF videoSrc # "null"
       THEN /\ GenerateFrames(f)
            /\ runCause' = "fps"
       ELSE UNCHANGED <<extractVars, videoVars, browserVars, runsStarted, runFps,
                        runCause, overlap>>
    /\ UNCHANGED <<status, videoSrc, playbackSpeed, frames, loadPc, autoStart,
                   playVars, lastPub, pure, flipbookSize>>

\* A size preset is clicked: setFlipbookSize(w, h).
SetFlipbookSize(size) ==
    /\ flipbookSize' = size
    /\ IF videoSrc # "null"
       THEN /\ GenerateFrames(fps)
            /\ runCause' = "size"
       ELSE UNCHANGED <<extractVars, videoVars, browserVars, runsStarted, runFps,
                        runCause, overlap>>
    /\ UNCHANGED <<status, videoSrc, fps, playbackSpeed, frames, loadPc, autoStart,
                   playVars, lastPub, pure>>

\* play() fulfils: the first notification is requested.
PlayResolved(r) ==
    /\ r \in playPromises
    /\ vPlaying
    /\ playPromises' = playPromises \ {r}
    /\ cbWaiting' = cbWaiting \cup {r}
    /\ UNCHANGED <<status, videoSrc, fps, playbackSpeed, frames, loadPc, autoStart,
                   extractVars, videoVars, metaWait, cbReady, inFlight,
                   playVars, histVars, pure, flipbookSize>>

\* The setTimeout callback of updateFrames.
AutoStartFire ==
    /\ autoStart > 0
    /\ autoStart' = autoStart - 1
    /\ TogglePlayBody
    /\ ResolveHeld
    /\ UNCHANGED <<status, videoSrc, fps, playbackSpeed, frames, loadPc,
                   totalFrames, targetFrameTimes, currentTargetIndex, videoDuration,
                   videoVars, browserVars, histVars, pure, flipbookSize>>

\* A resetVideo that leaves the capture cursor where it was.
ResetVideoBodyKeepCursor ==
    /\ StopPlayback
    /\ totalFrames' = << >>
    /\ frames' = << >>
    /\ currentFrameIndex' = 0
    /\ videoDuration' = 0
    /\ targetFrameTimes' = << >>
    /\ UNCHANGED currentTargetIndex
    /\ overlap' = (overlap \/ ChainAlive)
    /\ lastPub' = NoPub

\* resetVideo, but for status and videoSrc (loadSampleVideo overwrites both
\* before it first suspends).
ResetVideoBody ==
    /\ StopPlayback
    /\ totalFrames' = << >>
    /\ frames' = << >>
    /\ currentFrameIndex' = 0
    /\ videoDuration' = 0
    /\ targetFrameTimes' = << >>
    /\ currentTargetIndex' = 0
    /\ overlap' = (overlap \/ ChainAlive)
    /\ lastPub' = NoPub

ResetVideo ==
    /\ ResetVideoBody
    /\ status' = "empty"
    /\ videoSrc' = "null"
    /\ UNCHANGED <<fps, playbackSpeed, loadPc, autoStart, frameGenerationResolver, pendingPromises,
                   videoVars, browserVars, runsStarted, runFps, runCause, pure,
                   flipbookSize>>

\* loadSampleVideo up to its first await (the 200 ms timeout).
LoadSampleVideo ==
    /\ loadPc = "idle"
    /\ runsStarted < MaxRuns
    /\ ResetVideoBody
    /\ videoSrc' = "sample"
    /\ status' = "loaded"
    /\ loadPc' = "wait200"
    /\ UNCHANGED <<fps, playbackSpeed, autoStart, frameGenerationResolver, pendingPromises,
                   videoVars, browserVars, runsStarted, runFps, runCause, pure,
                   flipbookSize>>

\* ... the timeout fires: videoEl.load(), then the wait for loadedmetadata.
LoadReload ==
    /\ loadPc = "wait200"
    /\ loadPc' = "waitMeta"
    /\ vReady' = FALSE
    /\ vPlaying' = FALSE
    /\ vTime' = 0
    /\ vEnded' = FALSE
    /\ vFresh' = FALSE
    /\ vError' = FALSE
    /\ overlap' = (overlap \/ ChainAlive)
    /\ UNCHANGED <<status, videoSrc, fps, playbackSpeed, frames, autoStart,
                   extractVars, browserVars, playVars, runsStarted, runFps,
                   runCause, lastPub, pure, flipbookSize>>

\* ... loadedmetadata: the handler of loadSampleVideo stores the duration and
\* its continuation calls generateFrames; then the listeners left by calls of
\* generateFrames that found no metadata run processVideo.
LoadedMetadata ==
    /\ loadPc = "waitMeta"
    /\ runsStarted < MaxRuns
    /\ runsStarted' = runsStarted + 1
    /\ loadPc' = "idle"
    /\ vReady' = TRUE
    /\ totalFrames' = << >>
    /\ currentTargetIndex' = 0
    /\ frameGenerationResolver' = "resolve"
    /\ pendingPromises' = Older(pendingPromises) \cup {0}
    /\ overlap' = ChainAlive
    /\ videoDuration' = DurationMs
    /\ targetFrameTimes' = CalculateTargetFrameTimes(DurationMs, fps)
    /\ vTime' = 0
    /\ vEnded' = FALSE
    /\ vFresh' = TRUE
    /\ vPlaying' = TRUE
    /\ playPromises' = Older(playPromises \cup metaWait) \cup {0}
    /\ metaWait' = {}
    /\ cbWaiting' = Older(cbWaiting)
    /\ cbReady' = Older(cbReady)
    /\ inFlight' = OlderInFlight
    /\ runFps' = fps
    /\ runCause' = "load"
    /\ UNCHANGED <<status, videoSrc, fps, playbackSpeed, frames, autoStart,
                   vError, playVars, lastPub, pure, flipbookSize>>

Next ==
    \/ LoadSampleVideo
    \/ LoadReload
    \/ LoadedMetadata
    \/ \E f \in FpsChoices : HandleFpsChange(f)
    \/ \E size \in SizeChoices : SetFlipbookSize(size)
    \/ \E r \in Ages : PlayResolved(r)
    \/ PresentFirstFrame
    \/ \E dt \in AdvanceSteps : Advance(dt)
    \/ VideoEnds
    \/ \E c \in Ages : Notify(c)
    \/ \E e \in inFlight : DrawFrameDone(e)
    \/ AutoStartFire
    \/ ResetVideo
    \/ TogglePlay
    \/ Tick
    \/ PreviousFrame
    \/ NextFrame
    \/ \E i \in -1..(Len(frames) + 1) : SetFramePosition(i)
    \/ \E s \in SpeedChoices : SetPlaybackSpeed(s)

Spec == Init /\ [][Next]_vars


\* The capture pipeline without the playback controls (togglePlay, the timer
\* tick, previous/next, setFramePosition, the speed slider): none of them
\* reads or writes the extraction state, the video or the browser's pending
\* extraction work.
ExtractNext ==
    \/ LoadSampleVideo
    \/ LoadReload
    \/ LoadedMetadata
    \/ \E f \in FpsChoices : HandleFpsChange(f)
    \/ \E size \in SizeChoices : SetFlipbookSize(size)
    \/ \E r \in Ages : PlayResolved(r)
    \/ PresentFirstFrame
    \/ \E dt \in AdvanceSteps : Advance(dt)
    \/ VideoEnds
    \/ \E c \in Ages : Notify(c)
    \/ \E e \in inFlight : DrawFrameDone(e)
    \/ AutoStartFire
    \/ ResetVideo

ExtractSpec == Init /\ [][ExtractNext]_vars

\* --------------------------------------------------------- the browser's part
\* What happens without the user: the timeout and the metadata of
\* loadSampleVideo, play() fulfilling, the decoder playing the source to its
\* end and delivering a notification for each frame it presents, the handlers
\* and createImageBitmap, and the auto-start timeout. Each of them happens if
\* it stays possible; the user's operations may or may not happen.
PlaybackStep ==
    \/ PresentFirstFrame
    \/ \E dt \in AdvanceSteps : Advance(dt)
    \/ VideoEnds

BrowserFairness ==
    /\ WF_vars(LoadReload)
    /\ WF_vars(LoadedMetadata)
    /\ WF_vars(\E r \in Ages : PlayResolved(r))
    /\ WF_vars(PlaybackStep)
    /\ WF_vars(\E c \in Ages : Notify(c))
    /\ WF_vars(\E e \in inFlight : DrawFrameDone(e))
    /\ WF_vars(AutoStartFire)

LiveSpec == Init /\ [][ExtractNext]_vars /\ BrowserFairness

\* ------------------------------------------- extraction left to run by itself
\* No run has published since the last resetVideo.
NothingPublished == lastPub = NoPub

\* The user loads the sample and moves the fps slider or picks a size only
\* until a run publishes; after that nothing but the browser acts: the
\* decoder, the promises, the auto-start timeout and the animation timer.
QuietNext ==
    \/ NothingPublished /\ LoadSampleVideo
    \/ NothingPublished /\ \E f \in FpsChoices : HandleFpsChange(f)
    \/ NothingPublished /\ \E size \in SizeChoices : SetFlipbookSize(size)
    \/ LoadReload
    \/ LoadedMetadata
    \/ \E r \in Ages : PlayResolved(r)
    \/ PresentFirstFrame
    \/ \E dt \in AdvanceSteps : Advance(dt)
    \/ VideoEnds
    \/ \E c \in Ages : Notify(c)
    \/ \E e \in inFlight : DrawFrameDone(e)
    \/ AutoStartFire
    \/ Tick

QuietSpec == Init /\ [][QuietNext]_vars

\* ------------------------------------------------ playback left to its timer
\* Anything leads up to the start of playback (by the auto-start timeout or by
\* the play button, from any position next-frame reaches); from then on only
\* the interval timer acts, and it keeps firing.
TickNext ==
    \/ ~isPlaying /\ LoadSampleVideo
    \/ ~isPlaying /\ LoadReload
    \/ ~isPlaying /\ LoadedMetadata
    \/ ~isPlaying /\ \E f \in FpsChoices : HandleFpsChange(f)
    \/ ~isPlaying /\ \E r \in Ages : PlayResolved(r)
    \/ ~isPlaying /\ PlaybackStep
    \/ ~isPlaying /\ \E c \in Ages : Notify(c)
    \/ ~isPlaying /\ \E e \in inFlight : DrawFrameDone(e)
    \/ ~isPlaying /\ AutoStartFire
    \/ ~isPlaying /\ TogglePlay
    \/ ~isPlaying /\ NextFrame
    \/ isPlaying /\ Tick

TickSpec == Init /\ [][TickNext]_vars /\ WF_vars(Tick)

\* ------------------------------------------------ no video element mounted
\* The 200 ms timeout of loadSampleVideo fires while video.value is undefined:
\* the if (videoEl) block is skipped, nothing is thrown, and the function
\* returns.
LoadNoVideo ==
    /\ loadPc = "wait200"
    /\ loadPc' = "idle"
    /\ UNCHANGED <<status, videoSrc, fps, playbackSpeed, frames, autoStart,
                   flipbookSize, extractVars, videoVars, browserVars, playVars,
                   histVars, pure>>

\* The fps slider while video.value is undefined: handleFpsChange finds
\* videoSrc.value && video.value false and does nothing more.
UnmountedFpsChange(f) ==
    /\ f # fps
    /\ fps' = f
    /\ UNCHANGED <<status, videoSrc, playbackSpeed, frames, loadPc, autoStart,
                   flipbookSize, extractVars, videoVars, browserVars, playVars,
                   histVars, pure>>

\* The composable used with no <video> element mounted, as its unit tests do.
UnmountedNext ==
    \/ LoadSampleVideo
    \/ LoadNoVideo
    \/ ResetVideo
    \/ \E f \in MinFps..MaxFps : UnmountedFpsChange(f)
    \/ \E s \in SpeedChoices : SetPlaybackSpeed(s)

UnmountedSpec == Init /\ [][UnmountedNext]_vars

\* ------------------------------------------------- errors of the video element
\* The decoder fails while the video is playing: the element sets its error
\* attribute, stops presenting frames and fires error. generateFrames listens
\* for error only while it waits for loadedmetadata (handleError is removed by
\* handleMetadata, and never added when readyState >= 1), and getFrame has no
\* error path, so no handler runs.
DecoderError ==
    /\ vReady /\ vPlaying /\ ~vEnded /\ ~vError
    /\ metaWait = {}
    /\ vError' = TRUE
    /\ vPlaying' = FALSE
    /\ UNCHANGED <<status, videoSrc, fps, playbackSpeed, frames, loadPc, autoStart,
                   extractVars, vReady, vTime, vEnded, vFresh, browserVars,
                   playVars, histVars, pure, flipbookSize>>

\* The element fires error instead of loadedmetadata after load(): the
\* handleError of every generateFrames call that waits for the metadata drops
\* the resolver and rejects, and the handleError of loadSampleVideo rejects, so
\* that its catch sets status = error.
LoadError ==
    /\ loadPc = "waitMeta"
    /\ loadPc' = "idle"
    /\ vError' = TRUE
    /\ status' = "error"
    /\ metaWait' = {}
    /\ frameGenerationResolver' =
           IF metaWait # {} THEN "null" ELSE frameGenerationResolver
    /\ pendingPromises' = pendingPromises \ metaWait
    /\ UNCHANGED <<videoSrc, fps, playbackSpeed, frames, autoStart,
                   totalFrames, targetFrameTimes, currentTargetIndex, videoDuration,
                   vReady, vPlaying, vTime, vEnded, vFresh,
                   playPromises, cbWaiting, cbReady, inFlight,
                   playVars, histVars, pure, flipbookSize>>

\* The capture pipeline with a video element that can fail.
ErrNext ==
    \/ ExtractNext
    \/ DecoderError
    \/ LoadError

ErrSpec == Init /\ [][ErrNext]_vars

\* ------------------------- generateFrames of composables/useVideoFrames.ts
\* generateFrames of the composable, with fps = f when it is called: it empties
\* totalFrames, resets the cursor, adds a loadedmetadata listener that is never
\* removed, calls play() and registers getFrame at once. play() on a video that
\* has ended starts it again from the beginning.
OldGenerateFrames(f) ==
    /\ runsStarted < MaxRuns
    /\ runsStarted' = runsStarted + 1
    /\ runFps' = f
    /\ totalFrames' = << >>
    /\ currentTargetIndex' = 0
    /\ overlap' = ChainAlive
    /\ metaWait' = Older(metaWait) \cup {0}
    /\ cbWaiting' = Older(cbWaiting) \cup {0}
    /\ cbReady' = Older(cbReady)
    /\ inFlight' = OlderInFlight
    /\ vPlaying' = TRUE
    /\ IF vEnded
       THEN /\ vTime' = 0
            /\ vEnded' = FALSE
            /\ vFresh' = TRUE
       ELSE UNCHANGED <<vTime, vEnded, vFresh>>
    /\ UNCHANGED <<targetFrameTimes, videoDuration, frameGenerationResolver, pendingPromises,
                   playPromises, vReady, vError>>

\* handleFpsChange of the composable.
OldHandleFpsChange(f) ==
    /\ f # fps
    /\ fps' = f
    /\ IF videoSrc # "null"
       THEN /\ OldGenerateFrames(f)
            /\ runCause' = "fps"
       ELSE UNCHANGED <<extractVars, videoVars, browserVars, runsStarted, runFps,
                        runCause, overlap>>
    /\ UNCHANGED <<status, videoSrc, playbackSpeed, frames, loadPc, autoStart,
                   playVars, lastPub, pure, flipbookSize>>

\* loadSampleVideo of the composable up to its first await: no resetVideo.
OldLoadSampleVideo ==
    /\ loadPc = "idle"
    /\ runsStarted < MaxRuns
    /\ videoSrc' = "sample"
    /\ status' = "loaded"
    /\ loadPc' = "wait200"
    /\ UNCHANGED <<fps, playbackSpeed, frames, autoStart, extractVars, videoVars,
                   browserVars, playVars, histVars, pure, flipbookSize>>

\* loadedmetadata after the load() of loadSampleVideo: the listeners left by
\* earlier generateFrames calls compute targetFrameTimes from the fps of now
\* and seek to 0; handleMetadata stores the duration, and the continuation of
\* loadSampleVideo calls generateFrames, whose own listener comes too late for
\* this event.
OldLoadedMetadata ==
    /\ loadPc = "waitMeta"
    /\ runsStarted < MaxRuns
    /\ runsStarted' = runsStarted + 1
    /\ loadPc' = "idle"
    /\ vReady' = TRUE
    /\ videoDuration' = DurationMs
    /\ targetFrameTimes' = IF metaWait # {}
                           THEN CalculateTargetFrameTimes(DurationMs, fps)
                           ELSE targetFrameTimes
    /\ vTime' = 0
    /\ vEnded' = FALSE
    /\ vFresh' = TRUE
    /\ vPlaying' = TRUE
    /\ runFps' = fps
    /\ runCause' = "load"
    /\ totalFrames' = << >>
    /\ currentTargetIndex' = 0
    /\ overlap' = ChainAlive
    /\ metaWait' = Older(metaWait) \cup {0}
    /\ cbWaiting' = Older(cbWaiting) \cup {0}
    /\ cbReady' = Older(cbReady)
    /\ inFlight' = OlderInFlight
    /\ UNCHANGED <<status, videoSrc, fps, playbackSpeed, frames, autoStart,
                   frameGenerationResolver, pendingPromises, playPromises, vError, playVars,
                   lastPub, pure, flipbookSize>>

OldNext ==
    \/ OldLoadSampleVideo
    \/ LoadReload
    \/ OldLoadedMetadata
    \/ \E f \in FpsChoices : OldHandleFpsChange(f)
    \/ PresentFirstFrame
    \/ \E dt \in AdvanceSteps : Advance(dt)
    \/ VideoEnds
    \/ \E c \in Ages : Notify(c)
    \/ \E e \in inFlight : DrawFrameDone(e)
    \/ AutoStartFire
    \/ ResetVideo

OldSpec == Init /\ [][OldNext]_vars

\* ------------------------------------------- the timing helpers checked alone
\* Durations (ms) and frame rates given to calculateTargetFrameTimes: the slider
\* range, and values outside it on both sides of zero.
PureDurations == (-1)..MaxPureDurationMs
PureFps == (-1)..MaxFps

\* One evaluation is recorded per behaviour: the helpers keep no state, so an
\* evaluation does not depend on the ones before it.

\* calculateTargetFrameTimes(d / 1000, f) is evaluated.
PureTargets ==
    /\ pure.op = "none"
    /\ \E d \in PureDurations, f \in PureFps :
          pure' = [op |-> "targets", d |-> d, f |-> f,
                   out |-> CalculateTargetFrameTimes(d, f)]
    /\ UNCHANGED <<status, videoSrc, fps, playbackSpeed, frames, loadPc, autoStart,
                   flipbookSize, extractVars, videoVars, browserVars, playVars,
                   histVars>>

\* shouldCaptureFrame(t / 1000, targets, k) is evaluated on the target list of a
\* video of DurationMs, at every position of the video and every cursor up to
\* one past the end of the list.
PureShould ==
    /\ pure.op = "none"
    /\ \E f \in FpsChoices \cup {MinFps, MaxFps}, t \in 0..DurationMs :
          \E k \in 0..(Len(CalculateTargetFrameTimes(DurationMs, f)) + 1) :
             pure' = [op |-> "should", t |-> t, k |-> k,
                      targets |-> CalculateTargetFrameTimes(DurationMs, f),
                      out |-> ShouldCaptureFrame(
                                 t, CalculateTargetFrameTimes(DurationMs, f), k)]
    /\ UNCHANGED <<status, videoSrc, fps, playbackSpeed, frames, loadPc, autoStart,
                   flipbookSize, extractVars, videoVars, browserVars, playVars,
                   histVars>>

\* calculateAnimationInterval(s) is evaluated, inside and outside the slider's
\* range.
PureSpeeds == (-MaxPureSpeed)..MaxPureSpeed

PureInterval ==
    /\ pure.op = "none"
    /\ \E s \in PureSpeeds :
          pure' = [op |-> "interval", s |-> s,
                   out |-> CalculateAnimationInterval(s)]
    /\ UNCHANGED <<status, videoSrc, fps, playbackSpeed, frames, loadPc, autoStart,
                   flipbookSize, extractVars, videoVars, browserVars, playVars,
                   histVars>>

\* calculateOptimalPlaybackRate(d / 1000, f) is evaluated, from long negative
\* to long positive durations.
RateStepMs == 5000
PureRateDurations == {k * RateStepMs : k \in (-MaxRateSteps)..MaxRateSteps}

PureRate ==
    /\ pure.op = "none"
    /\ \E d \in PureRateDurations \cup {-1, 1, 15500}, f \in PureFps :
          pure' = [op |-> "rate", d |-> d, f |-> f,
                   out |-> CalculateOptimalPlaybackRate(d, f)]
    /\ UNCHANGED <<status, videoSrc, fps, playbackSpeed, frames, loadPc, autoStart,
                   flipbookSize, extractVars, videoVars, browserVars, playVars,
                   histVars>>

\* Aspect ratios of videos: wider than, equal to and narrower than the pages.
PureRatios == {<<16, 9>>, <<4, 3>>, <<7, 5>>, <<5, 3>>, <<1, 1>>, <<9, 16>>}
\* Page sizes given to generateFlipbookPDF.
PurePages == {<<560, 400>>, <<400, 560>>, <<PreviewMaxWidth, PreviewMaxHeight>>}

\* generateFlipbookPDF({frames, cover, width, height, videoAspectRatio}) is
\* evaluated.
PurePdf ==
    /\ pure.op = "none"
    /\ \E page \in PurePages, ratio \in PureRatios, cover \in BOOLEAN,
          n \in 0..MaxPdfFrames :
          pure' = [op |-> "pdf", w |-> page[1], h |-> page[2],
                   rn |-> ratio[1], rd |-> ratio[2], cover |-> cover, n |-> n,
                   out |-> GenerateFlipbookPDF(n, cover, page[1], page[2],
                                               ratio[1], ratio[2])]
    /\ UNCHANGED <<status, videoSrc, fps, playbackSpeed, frames, loadPc, autoStart,
                   flipbookSize, extractVars, videoVars, browserVars, playVars,
                   histVars>>

\* generateFlipbookPDF of helper/print.ts is evaluated.
PureHelperPdf ==
    /\ pure.op = "none"
    /\ \E page \in PurePages, ratio \in PureRatios, cover \in BOOLEAN,
          n \in 0..MaxPdfFrames :
          pure' = [op |-> "helperPdf", w |-> page[1], h |-> page[2],
                   rn |-> ratio[1], rd |-> ratio[2], cover |-> cover, n |-> n,
                   out |-> HelperGenerateFlipbookPDF(n, cover, page[1], page[2],
                                                     ratio[1], ratio[2])]
    /\ UNCHANGED <<status, videoSrc, fps, playbackSpeed, frames, loadPc, autoStart,
                   flipbookSize, extractVars, videoVars, browserVars, playVars,
                   histVars>>

\* printPreview of the view is evaluated.
PurePreview ==
    /\ pure.op = "none"
    /\ \E ratio \in PureRatios, cover \in BOOLEAN, n \in 0..MaxPdfFrames :
          pure' = [op |-> "preview", w |-> PreviewMaxWidth,
                   h |-> PreviewMaxHeight,
                   rn |-> ratio[1], rd |-> ratio[2], cover |-> cover, n |-> n,
                   out |-> PrintPreview(n, cover, ratio[1], ratio[2])]
    /\ UNCHANGED <<status, videoSrc, fps, playbackSpeed, frames, loadPc, autoStart,
                   flipbookSize, extractVars, videoVars, browserVars, playVars,
                   histVars>>

\* A crop that keeps the dimension drawFrame trims and trims the other one
\* (the comparison of the two aspect ratios turned round).
DrawFrameCropSwapped(width, height, fw, fh) ==
    IF width * fh < fw * height
    THEN [sx |-> width * fh - height * fw, sy |-> 0,
          sw |-> 2 * height * fw, sh |-> 2 * height * fh, dd |-> 2 * fh]
    ELSE [sx |-> 0, sy |-> height * fw - width * fh,
          sw |-> 2 * width * fw, sh |-> 2 * width * fh, dd |-> 2 * fw]

\* The source rectangle of drawFrame for a decoded frame of width x height and
\* a flipbook of fw x fh inches (the canvas is 96 fw x 96 fh pixels, so
\* flipbookAspect = fw / fh): sourceX = sx / dd, sourceY = sy / dd,
\* sourceWidth = sw / dd, sourceHeight = sh / dd, kept as exact fractions.
DrawFrameCrop(width, height, fw, fh) ==
    IF width * fh > fw * height
    THEN [sx |-> width * fh - height * fw, sy |-> 0,
          sw |-> 2 * height * fw, sh |-> 2 * height * fh, dd |-> 2 * fh]
    ELSE [sx |-> 0, sy |-> height * fw - width * fh,
          sw |-> 2 * width * fw, sh |-> 2 * width * fh, dd |-> 2 * fw]

\* drawFrame computes its crop for a decoded frame and a flipbook size.
PureCrop ==
    /\ pure.op = "none"
    /\ \E width \in 1..MaxCropSide, height \in 1..MaxCropSide,
          fw \in 1..MaxFlipbookSide, fh \in 1..MaxFlipbookSide :
          pure' = [op |-> "crop", w |-> width, h |-> height, fw |-> fw, fh |-> fh,
                   out |-> DrawFrameCrop(width, height, fw, fh)]
    /\ UNCHANGED <<status, videoSrc, fps, playbackSpeed, frames, loadPc, autoStart,
                   flipbookSize, extractVars, videoVars, browserVars, playVars,
                   histVars>>

PureNext ==
    \/ PureCrop
    \/ PureTargets
    \/ PureShould
    \/ PureInterval
    \/ PureRate
    \/ PurePdf
    \/ PureHelperPdf
    \/ PurePreview

PureSpec == Init /\ [][PureNext]_vars


\* ------------------------------------------------------------- properties

\* A getFrame chain ends in this step: its last handler called updateFrames
\* instead of requesting another notification.
Published == Cardinality(AliveChains') < Cardinality(AliveChains)

\* The extraction in progress started when no other chain was alive and the
\* video was left alone since.
Undisturbed == ~overlap

\* C1: two completed extraction runs over the same source and the same fps
\* publish the same frame sequence, whatever the timing of the decoded-frame
\* notifications: when an undisturbed run publishes and the frames on show
\* were published by an undisturbed run that read the same fps, the new
\* sequence is the one on show.
C1_SameSequenceOnRerun ==
    [][(Published /\ Undisturbed /\ lastPub.clean /\ lastPub.fps = runFps)
          => frames' = frames]_vars

\* C2: after generateFrames restarts extraction, no frame captured by a chain
\* of an earlier call (a drawFrame in flight at the restart included) is
\* appended to totalFrames.
C2_NoStaleFrames ==
    \A i \in 1..Len(totalFrames) : totalFrames[i].age = 0

\* C3: at most one getFrame chain is alive at a time; a restart stops the chain
\* of the earlier run.
C3_SingleChain == Cardinality(AliveChains) <= 1

C5_TargetValues ==
    (pure.op = "targets" /\ pure.d > 0 /\ pure.f >= MinFps /\ pure.f <= MaxFps) =>
        /\ \A i \in 1..Len(pure.out) :
              /\ 2 * Abs(pure.f * pure.out[i] - MsPerSecond * (i - 1)) <= pure.f
              /\ pure.out[i] >= 0
              /\ pure.out[i] < pure.d
        /\ Len(pure.out) > 0 => pure.out[1] = 0
        /\ \A i \in 1..(Len(pure.out) - 1) : pure.out[i] < pure.out[i + 1]

C5_Witness ==
    /\ pure.op = "targets"
    /\ pure.d = MaxPureDurationMs
    /\ pure.f = 16
    /\ Len(pure.out) = 6
    /\ pure.out[2] = 63
    /\ pure.out[4] = 188

\* C6: shouldCaptureFrame(t, targets, k) is false when k >= targets.length, and
\* otherwise true exactly when t >= targets[k].
C6_CaptureDecision ==
    pure.op = "should" =>
        /\ pure.k >= Len(pure.targets) => pure.out = FALSE
        /\ pure.k < Len(pure.targets) =>
              (pure.out <=> pure.t >= pure.targets[pure.k + 1])

C6_Witness ==
    /\ pure.op = "should"
    /\ pure.k = 1
    /\ Len(pure.targets) = 3
    /\ pure.t = pure.targets[2]
    /\ pure.out = TRUE

\* C7: in one undisturbed run, whose notifications carry non-decreasing times,
\* the k-th captured frame was taken at a time >= targets[k], capture times
\* are non-decreasing, and no target index is captured twice: the frames held
\* are those of the indices below the cursor, one each, and a capture in
\* flight is the only one and is for the index at the cursor.
C7_CaptureOrder ==
    Undisturbed =>
        /\ Len(totalFrames) = currentTargetIndex
        /\ Len(totalFrames) <= Len(targetFrameTimes)
        /\ \A k \in 1..Len(totalFrames) :
              totalFrames[k].t >= targetFrameTimes[k]
        /\ \A k \in 1..(Len(totalFrames) - 1) :
              totalFrames[k].t <= totalFrames[k + 1].t
        /\ Cardinality(inFlight) <= 1
        /\ \A e \in inFlight :
              /\ e.idx = currentTargetIndex
              /\ e.idx < Len(targetFrameTimes)
              /\ e.t >= targetFrameTimes[e.idx + 1]
              /\ Len(totalFrames) > 0 => totalFrames[Len(totalFrames)].t <= e.t

C7_Witness ==
    /\ Undisturbed
    /\ Len(totalFrames) = 2
    /\ totalFrames[2].t > targetFrameTimes[2]
    /\ inFlight # {}

\* C9: a run started by an fps change after the earlier extraction had
\* completed, when it completes, leaves currentFrameIndex at 0 and publishes
\* only frames captured by that run, at most floor(duration * newFps) of them.
C9_RunAfterFpsChange ==
    [][(Published /\ Undisturbed /\ runCause = "fps") =>
          /\ currentFrameIndex' = 0
          /\ frames' = Images(totalFrames')
          /\ \A i \in 1..Len(totalFrames') : totalFrames'[i].age = 0
          /\ Len(frames') <= TotalFramesToCapture(DurationMs, fps)]_vars

C9_Witness ==
    /\ runCause = "fps"
    /\ Undisturbed
    /\ ~ChainAlive
    /\ lastPub.clean
    /\ lastPub.fps = fps
    /\ fps # DefaultFps
    /\ Len(frames) = TotalFramesToCapture(DurationMs, fps)
    /\ Len(frames) > 0
    /\ currentFrameIndex = 0

\* C10: currentFrameIndex is 0 while frames is empty, and otherwise lies in
\* 0..frames.length - 1, whatever operations of the composable have run.
C10_IndexInRange ==
    IF Len(frames) = 0
    THEN currentFrameIndex = 0
    ELSE currentFrameIndex >= 0 /\ currentFrameIndex <= Len(frames) - 1

C10_Witness ==
    /\ Len(frames) >= 2
    /\ currentFrameIndex = Len(frames) - 1
    /\ isPlaying
    /\ activeTimers > 0

\* Everything but currentFrameIndex.
exceptIndex == <<status, videoSrc, fps, playbackSpeed, frames, loadPc, autoStart,
                 flipbookSize, extractVars, videoVars, browserVars, isPlaying,
                 playInterval, activeTimers, timerPeriod, histVars, pure>>

\* C11: at most one animation timer is active at any time, and isPlaying is
\* true exactly when a timer is active (the one playInterval names).
C11_SingleTimer ==
    /\ activeTimers <= 1
    /\ isPlaying <=> activeTimers = 1
    /\ isPlaying <=> playInterval = "timer"

C11_Witness ==
    /\ isPlaying
    /\ activeTimers = 1
    /\ playbackSpeed # 0
    /\ timerPeriod = CalculateAnimationInterval(playbackSpeed)
    /\ autoStart > 0

\* C12: togglePlay, when playing, stops the timer and sets isPlaying to false;
\* when not playing it starts the timer and sets isPlaying to true only if
\* frames is non-empty, and with empty frames it changes nothing.
C12_TogglePlay ==
    [][TogglePlay =>
          IF isPlaying
          THEN /\ ~isPlaying'
               /\ playInterval' = "null"
               /\ activeTimers' = 0
          ELSE IF Len(frames) > 0
               THEN /\ isPlaying'
                    /\ playInterval' = "timer"
                    /\ activeTimers' = 1
               ELSE UNCHANGED vars]_vars

\* togglePlay started playback of the published frames before the auto-start
\* timeout of the only run fired.
C12_Witness ==
    /\ runsStarted = 1
    /\ autoStart = 1
    /\ Len(frames) > 0
    /\ isPlaying
    /\ activeTimers = 1

\* C13: a tick of the animation timer moves currentFrameIndex from i to i + 1
\* when i < frames.length - 1 and from the last index to 0, and changes
\* nothing else.
C13_Tick ==
    [][Tick =>
          /\ currentFrameIndex < Len(frames) - 1 =>
                currentFrameIndex' = currentFrameIndex + 1
          /\ currentFrameIndex >= Len(frames) - 1 => currentFrameIndex' = 0
          /\ UNCHANGED exceptIndex]_vars

\* A 3-frame sequence playing at index 2: the next tick wraps to 0.
C13_Witness ==
    /\ Len(frames) = 3
    /\ currentFrameIndex = 2
    /\ isPlaying
    /\ activeTimers = 1

\* C14: nextFrame and previousFrame stop autoplay (timer cleared, isPlaying
\* false) and move currentFrameIndex by one step without wraparound: nextFrame
\* at the last index and previousFrame at index 0 leave the index unchanged.
C14_StepNavigation ==
    [][/\ NextFrame =>
            /\ ~isPlaying' /\ playInterval' = "null" /\ activeTimers' = 0
            /\ currentFrameIndex' =
                  IF currentFrameIndex < Len(frames) - 1
                  THEN currentFrameIndex + 1 ELSE currentFrameIndex
       /\ PreviousFrame =>
            /\ ~isPlaying' /\ playInterval' = "null" /\ activeTimers' = 0
            /\ currentFrameIndex' =
                  IF currentFrameIndex > 0
                  THEN currentFrameIndex - 1 ELSE currentFrameIndex]_vars

\* Autoplay was stopped with the 3-frame sequence at its last index.
C14_Witness ==
    /\ Len(frames) = 3
    /\ currentFrameIndex = 2
    /\ ~isPlaying
    /\ playInterval = "null"
    /\ activeTimers = 0
    /\ autoStart = 0

\* C15: setFramePosition(index) stops autoplay and sets currentFrameIndex to
\* index exactly when 0 <= index < frames.length; for any other index
\* (negative, >= length, any index when frames is empty) currentFrameIndex is
\* unchanged.
C15_SetFramePosition ==
    [][\A index \in (-1)..(Len(frames) + 1) :
          SetFramePosition(index) =>
             /\ ~isPlaying' /\ playInterval' = "null" /\ activeTimers' = 0
             /\ (index >= 0 /\ index < Len(frames)) => currentFrameIndex' = index
             /\ ~(index >= 0 /\ index < Len(frames)) =>
                   currentFrameIndex' = currentFrameIndex]_vars

\* Autoplay was stopped with the 3-frame sequence at its middle index.
C15_Witness ==
    /\ Len(frames) = 3
    /\ currentFrameIndex = 1
    /\ ~isPlaying
    /\ playInterval = "null"
    /\ activeTimers = 0
    /\ autoStart = 0
    /\ ~ChainAlive

\* C16: setFramePosition with index < 0 or index >= frames.length is a no-op:
\* it leaves currentFrameIndex, isPlaying and the animation timer unchanged.
C16_OutOfRangeNoOp ==
    [][\A index \in {-1, Len(frames), Len(frames) + 1} :
          SetFramePosition(index) =>
             UNCHANGED <<currentFrameIndex, isPlaying, playInterval,
                         activeTimers>>]_vars

\* C17: changing playbackSpeed while playing replaces the running timer by
\* exactly one new timer whose period is calculateAnimationInterval(new
\* speed) and leaves currentFrameIndex and isPlaying unchanged; changing it
\* while not playing starts no timer.
C17_SpeedChange ==
    [][\A s \in SpeedChoices :
          SetPlaybackSpeed(s) =>
             /\ UNCHANGED <<currentFrameIndex, isPlaying, activeTimers,
                            playInterval>>
             /\ isPlaying =>
                   /\ activeTimers' = 1
                   /\ timerPeriod' = CalculateAnimationInterval(s)
             /\ ~isPlaying => activeTimers' = 0 /\ UNCHANGED timerPeriod]_vars

\* Playing past index 0 at a speed other than the initial one, with the timer
\* at that speed's period.
C17_Witness ==
    /\ isPlaying
    /\ activeTimers = 1
    /\ playbackSpeed = -1
    /\ timerPeriod = 200
    /\ currentFrameIndex > 0

C19_PlaybackRate ==
    pure.op = "rate" =>
        LET half == RateScale \div 2
            perMs == half \div (30 * MsPerSecond)
            perFps == half \div 60
            dTerm == IF pure.d >= 30 * MsPerSecond THEN half ELSE pure.d * perMs
            fTerm == IF pure.f >= 60 THEN half ELSE pure.f * perFps
            sum == 2 * RateScale + dTerm + fTerm
        IN  /\ pure.out >= half
            /\ pure.out <= 4 * RateScale
            /\ (sum >= half /\ sum <= 4 * RateScale) => pure.out = sum
            /\ sum < half => pure.out = half
            /\ sum > 4 * RateScale => pure.out = 4 * RateScale

\* A duration so negative that the lower clamp is what is returned.
C19_Witness ==
    /\ pure.op = "rate"
    /\ pure.d = -(MaxRateSteps * RateStepMs)
    /\ pure.f = DefaultFps
    /\ pure.out = RateScale \div 2

\* C20: generateFlipbookPDF and printPreview give every page width = pageWidth
\* and height = pageWidth / ratio when ratio > pageWidth / pageHeight, and
\* height = pageHeight and width = pageHeight * ratio otherwise; for ratio
\* 16/9 on a 560 x 400 page this is 560 x 315.
C20_PageSize ==
    (pure.op = "pdf" \/ pure.op = "preview") =>
        /\ Len(pure.out) = pure.n + IF pure.cover THEN 1 ELSE 0
        /\ \A i \in 1..Len(pure.out) :
              LET page == pure.out[i]
              IN  /\ page.dd > 0
                  /\ IF pure.rn * pure.h > pure.w * pure.rd
                     THEN /\ page.wn = pure.w * page.dd
                          /\ page.hn * pure.rn = pure.w * pure.rd * page.dd
                     ELSE /\ page.hn = pure.h * page.dd
                          /\ page.wn * pure.rd = pure.h * pure.rn * page.dd
                  /\ (pure.w = 560 /\ pure.h = 400 /\ pure.rn = 16 /\ pure.rd = 9)
                        => (page.wn = 560 * page.dd /\ page.hn = 315 * page.dd)

\* The height-constrained branch, cover and frames: 4/3 on the preview page.
C20_Witness ==
    /\ pure.op = "preview"
    /\ pure.rn = 4
    /\ pure.rd = 3
    /\ pure.cover
    /\ pure.n = MaxPdfFrames
    /\ Len(pure.out) = MaxPdfFrames + 1
    /\ pure.out[1].hn = PreviewMaxHeight * pure.out[1].dd
    /\ pure.out[1].wn = 256 * pure.out[1].dd

\* C21: for every page size and every aspect ratio > 0, the pdfWidth and
\* pdfHeight computed by generateFlipbookPDF of helper/print.ts fit the page
\* (pdfWidth <= width, pdfHeight <= height) and preserve the aspect ratio
\* (pdfWidth / pdfHeight = ratio).
C21_HelperFitsPage ==
    pure.op = "helperPdf" =>
        \A i \in 1..Len(pure.out) :
            /\ pure.out[i].wn <= pure.w * pure.out[i].dd
            /\ pure.out[i].hn <= pure.h * pure.out[i].dd
            /\ pure.out[i].wn * pure.rd = pure.out[i].hn * pure.rn

\* C22: the page list built by generateFlipbookPDF (utils/print.ts and
\* helper/print.ts) holds the cover first when a cover is set, then exactly
\* one page per frame in frames order, all pages with the same image width
\* and height; its length is frames.length + 1 with a cover and frames.length
\* without.
C22_PageList ==
    (pure.op = "pdf" \/ pure.op = "helperPdf") =>
        LET c == IF pure.cover THEN 1 ELSE 0
        IN  /\ Len(pure.out) = pure.n + c
            /\ pure.cover => pure.out[1].image = 0
            /\ \A k \in 1..pure.n : pure.out[k + c].image = k
            /\ \A i, j \in 1..Len(pure.out) :
                  /\ pure.out[i].wn * pure.out[j].dd =
                        pure.out[j].wn * pure.out[i].dd
                  /\ pure.out[i].hn * pure.out[j].dd =
                        pure.out[j].hn * pure.out[i].dd

C22_Witness ==
    /\ pure.op = "helperPdf"
    /\ pure.cover
    /\ pure.n = MaxPdfFrames
    /\ Len(pure.out) = MaxPdfFrames + 1
    /\ pure.out[1].image = 0
    /\ pure.out[MaxPdfFrames + 1].image = MaxPdfFrames

\* A getFrame chain of some run has requested a notification, or is handling
\* one: the run is sampling.
Sampling == AliveChains # {}

\* C23: a decoder error while an extraction is sampling ends the run in the
\* terminal error state: status = error once the error event is handled (and
\* the resolver of the rejected promise is dropped).
C23_DecoderErrorFails ==
    [][(DecoderError /\ Sampling) =>
          (status' = "error" /\ frameGenerationResolver' = "null")]_vars

\* C24: when the element fires error instead of loadedmetadata while
\* loadSampleVideo waits for the metadata, status becomes error, no
\* notification chain is started, and frames and totalFrames are empty.
C24_MetadataErrorLeavesNothing ==
    [][LoadError =>
          /\ status' = "error"
          /\ AliveChains' \subseteq AliveChains
          /\ playPromises' \subseteq playPromises
          /\ frames' = << >>
          /\ totalFrames' = << >>]_vars

\* C25: resetVideo, from any state, stops playback and leaves status = empty,
\* videoSrc = null, totalFrames = [], frames = [], currentFrameIndex = 0,
\* videoDuration = 0, targetFrameTimes = [], currentTargetIndex = 0,
\* isPlaying = false and no animation timer.
C25_ResetVideo ==
    [][ResetVideo =>
          /\ status' = "empty"
          /\ videoSrc' = "null"
          /\ totalFrames' = << >>
          /\ frames' = << >>
          /\ currentFrameIndex' = 0
          /\ videoDuration' = 0
          /\ targetFrameTimes' = << >>
          /\ currentTargetIndex' = 0
          /\ isPlaying' = FALSE
          /\ playInterval' = "null"
          /\ activeTimers' = 0]_vars

\* resetVideo has acted in the middle of an extraction: a getFrame call of the
\* run it interrupted is still suspended in drawFrame.
C25_Witness ==
    /\ status = "empty"
    /\ videoSrc = "null"
    /\ runsStarted > 0
    /\ inFlight # {}
    /\ targetFrameTimes = << >>
    /\ currentTargetIndex = 0
    /\ frames = << >>
    /\ ~isPlaying
    /\ activeTimers = 0

\* C26: after an extraction has published at least one frame and the user has
\* done nothing since, playback is running once no auto-start delay is pending
\* any more (isPlaying is false while the delay of the last updateFrames runs);
\* after it has published no frame, playback is not running.
C26_AutoStart ==
    ~NothingPublished =>
        /\ (Len(frames) > 0 /\ autoStart = 0) => isPlaying
        /\ Len(frames) = 0 => ~isPlaying

\* C27: every extraction that starts sampling eventually completes: whenever
\* getFrame chains are registered or running, a state follows in which all of
\* them have called updateFrames, given that the decoder plays the source to
\* its end and a notification is delivered for every frame it presents.
C27_SamplingCompletes == Sampling ~> ~Sampling

\* C28: with the generateFrames of composables/useVideoFrames.ts, a
\* notification handled for the latest run is evaluated against
\* calculateTargetFrameTimes(duration, fps of that run), on the first load and
\* on a re-run after an fps change.
C28_OldRunTargets ==
    [][(Notify(0) /\ status = "loaded") =>
          targetFrameTimes = CalculateTargetFrameTimes(DurationMs, runFps)]_vars

\* C29: currentTargetIndex never exceeds targetFrameTimes.length (it starts a
\* run at 0 and grows by one per captured frame).
C29_CursorWithinTargets == currentTargetIndex <= Len(targetFrameTimes)

\* C30: when getFrame has handled a notification (with or without a capture)
\* it requests another one exactly when the video has not ended and
\* currentTargetIndex < targetFrameTimes.length, and otherwise calls
\* updateFrames and is gone; and updateFrames is called once for every run:
\* a run that has started sampling reaches the call.
C30_ContinueOrPublishOnce ==
    /\ [][\A c \in Ages :
            ((Notify(c) /\ ~ShouldCaptureFrame(vTime, targetFrameTimes,
                                               currentTargetIndex))
             \/ (\E e \in inFlight : e.chain = c /\ DrawFrameDone(e)))
            => IF ~vEnded /\ currentTargetIndex' < Len(targetFrameTimes)
               THEN /\ c \in cbWaiting'
                    /\ UNCHANGED <<frames, lastPub, autoStart>>
               ELSE /\ c \notin AliveChains'
                    /\ frames' = Images(totalFrames')
                    /\ lastPub' # NoPub]_vars
    /\ \A c \in Ages : (c \in cbWaiting) ~> (c \notin cbWaiting)

\* C31: frames changes only when a getFrame chain completes, and then to a copy
\* of totalFrames as it is at that moment, or on resetVideo (which
\* loadSampleVideo calls first); a notification or a capture that does not
\* complete its chain leaves frames and currentFrameIndex as they are, whatever
\* it appends to totalFrames.
C31_FramesOnlyOnCompletion ==
    [][/\ frames' # frames =>
              \/ Published /\ frames' = Images(totalFrames')
              \/ (ResetVideo \/ LoadSampleVideo) /\ frames' = << >>
       /\ (((\E c \in Ages : Notify(c)) \/ (\E e \in inFlight : DrawFrameDone(e)))
              /\ ~Published)
           => UNCHANGED <<frames, currentFrameIndex>>]_vars

\* A later run has appended to totalFrames, and is still sampling, while the
\* frames an earlier run published are on show at a position past the first.
C31_Witness ==
    /\ Len(frames) > 1
    /\ currentFrameIndex > 0
    /\ Len(totalFrames) > 0
    /\ Images(totalFrames) # frames
    /\ Sampling

C33_ResetStays ==
    (status = "empty" /\ loadPc = "idle" /\ targetFrameTimes = << >>) =>
        /\ frames = << >>
        /\ ~isPlaying
        /\ currentTargetIndex = 0

\* C34: the delayed auto-start of updateFrames never turns a running playback
\* off: when its timeout fires while isPlaying is true, isPlaying stays true.
C34_AutoStartOnlyStarts ==
    [][(AutoStartFire /\ isPlaying) => isPlaying']_vars

\* C35: the promise of a generateFrames call (the resolver held is always that
\* of the latest call) is resolved by updateFrames only when the getFrame chain
\* that calls updateFrames is the chain of that same call, not the chain of an
\* earlier one.
C35_ResolvedByOwnRun ==
    [][(Published /\ frameGenerationResolver = "resolve"
                  /\ frameGenerationResolver' = "null")
          => AliveChains \ AliveChains' = {0}]_vars

\* C36: every promise returned by generateFrames eventually settles: whenever
\* some promise is pending, a state follows in which none is.
C36_PromisesSettle == (pendingPromises # {}) ~> (pendingPromises = {})

\* C37: once playback runs on a non-empty sequence and only the timer acts,
\* every tick keeps isPlaying and frames and moves currentFrameIndex to the
\* next index, 0 after the last; and every index of frames is on show again
\* and again.
C37_LoopsForever ==
    /\ [][isPlaying =>
             /\ isPlaying'
             /\ frames' = frames
             /\ currentFrameIndex' = (currentFrameIndex + 1) % Len(frames)]_vars
    /\ \A i \in 0..(MaxRuns * (DurationMs \div StepMs + 1)) :
           [](isPlaying /\ i < Len(frames) => <>(currentFrameIndex = i))

\* Playback runs on three frames and the timer has brought the last on show.
C37_Witness ==
    /\ isPlaying
    /\ activeTimers = 1
    /\ Len(frames) = 3
    /\ currentFrameIndex = 2

\* C38: the crop rectangle of drawFrame lies inside the decoded frame, has
\* equal margins on opposite sides, trims at most one dimension and has
\* exactly the aspect ratio of the flipbook.
C38_CropRectangle ==
    pure.op = "crop" =>
        LET c == pure.out IN
        /\ c.sx >= 0 /\ c.sy >= 0
        /\ c.sx + c.sw <= pure.w * c.dd
        /\ c.sy + c.sh <= pure.h * c.dd
        /\ 2 * c.sx + c.sw = pure.w * c.dd
        /\ 2 * c.sy + c.sh = pure.h * c.dd
        /\ (c.sw = pure.w * c.dd \/ c.sh = pure.h * c.dd)
        /\ c.sw * pure.fh = c.sh * pure.fw

\* A 12 x 5 frame cropped for a 6 x 4 flipbook: the sides are trimmed, by
\* 9/4 = 2.25 each, and the full height is kept.
C38_Witness ==
    /\ pure.op = "crop"
    /\ pure.w = 12 /\ pure.h = 5 /\ pure.fw = 6 /\ pure.fh = 4
    /\ pure.out.sx * 4 = 9 * pure.out.dd
    /\ pure.out.sy = 0
    /\ pure.out.sh = pure.h * pure.out.dd

\* C39: with frames non-empty, a valid currentFrameIndex and videoDuration > 0
\* the displayed time is currentFrameIndex / (frames.length - 1) *
\* videoDuration, a number between 0 and videoDuration, for every length from
\* 1 upwards; with no frames or no duration it is 0.
C39_CurrentTimeDefined ==
    /\ (Len(frames) > 0 /\ videoDuration > 0
           /\ currentFrameIndex \in 0..(Len(frames) - 1))
        => /\ CurrentTime.kind = "number"
           /\ 0 <= CurrentTime.num
           /\ CurrentTime.num <= videoDuration * CurrentTime.den
    /\ (Len(frames) = 0 \/ videoDuration = 0)
        => (CurrentTime.kind = "number" /\ CurrentTime.num = 0)

\* C40: loadSampleVideo run while no video element is mounted ends with
\* status = error.
C40_NoElementIsError ==
    [][LoadNoVideo => status' = "error"]_vars

====
